---- MODULE Spec2Model ----
(***************************************************************************)
(* Model of the benchmark scripts: the matching primitives                 *)
(* (compare_strings, compare_numbers, normalize_hs, prefix_match,          *)
(* safe_get) and the five evaluate functions built on them.                *)
(*                                                                         *)
(* Every function of the scripts is pure, so a behaviour is one call:      *)
(* Init draws the arguments from bounded sets of JSON values, one action   *)
(* per function applies it and stores what it returned (or that it         *)
(* raised).  Text is a sequence of one-character strings; a JSON scalar is *)
(* a record [k, s, m, e] (kind, text, mantissa, decimal exponent).         *)
(***************************************************************************)
EXTENDS Integers, Sequences, FiniteSets, TLC

VARIABLES pc, fn, gt, pred, par, res

vars == <<pc, fn, gt, pred, par, res>>

-----------------------------------------------------------------------------
(* Bounds of the model *)

MaxStrLen == 2

-----------------------------------------------------------------------------
(* JSON scalars *)

None == [k |-> "none", s |-> <<>>, m |-> 0, e |-> 0]

Str(t) == [k |-> "str", s |-> t, m |-> 0, e |-> 0]

Num(mant, exp) == [k |-> "num", s |-> <<>>, m |-> mant, e |-> exp]

Whole(i) == Num(i, 0)

Min(a, b) == IF a <= b THEN a ELSE b

Max(a, b) == IF a >= b THEN a ELSE b

Abs(a) == IF a < 0 THEN 0 - a ELSE a

RECURSIVE SeqsUpTo(_, _)
SeqsUpTo(alphabet, n) ==
    IF n = 0 THEN {<<>>}
    ELSE LET shorter == SeqsUpTo(alphabet, n - 1)
         IN  shorter \cup {Append(t, c) : t \in shorter, c \in alphabet}

-----------------------------------------------------------------------------
(* Python's str(), str.strip() and == on JSON scalars *)

DigitChar(d) == <<"0", "1", "2", "3", "4", "5", "6", "7", "8", "9">>[d + 1]

RECURSIVE NatText(_)
NatText(n) == IF n < 10 THEN <<DigitChar(n)>>
              ELSE Append(NatText(n \div 10), DigitChar(n % 10))

\* str(v): a text is itself, None is the text "None", an int its decimal digits
py_str(v) ==
    CASE v.k = "str" -> v.s
      [] v.k = "none" -> <<"N", "o", "n", "e">>
      [] v.k = "num" -> IF v.m < 0 THEN <<"-">> \o NatText(0 - v.m) ELSE NatText(v.m)

IsSpace(c) == c = " "

RECURSIVE lstrip(_)
lstrip(t) == IF t # <<>> /\ IsSpace(Head(t)) THEN lstrip(Tail(t)) ELSE t

RECURSIVE rstrip(_)
rstrip(t) == IF t # <<>> /\ IsSpace(t[Len(t)]) THEN rstrip(SubSeq(t, 1, Len(t) - 1)) ELSE t

strip(t) == rstrip(lstrip(t))

\* y == pred on canonical scalars: same kind and same content
py_eq(y, p) == y = p

-----------------------------------------------------------------------------
(* difflib.SequenceMatcher(None, a, b).ratio() *)

\* the matching blocks a[i..i+k-1] = b[j..j+k-1] inside a[alo..ahi-1], b[blo..bhi-1]
CommonBlocks(a, alo, ahi, b, blo, bhi) ==
    {c \in (alo..(ahi - 1)) \X (blo..(bhi - 1)) \X (1..Min(ahi - alo, bhi - blo)) :
        /\ c[1] + c[3] <= ahi
        /\ c[2] + c[3] <= bhi
        /\ \A d \in 0..(c[3] - 1) : a[c[1] + d] = b[c[2] + d]}

\* find_longest_match: the longest block, the earliest in a, then the earliest in b
Precedes(c, d) ==
    \/ c[3] > d[3]
    \/ c[3] = d[3] /\ c[1] < d[1]
    \/ c[3] = d[3] /\ c[1] = d[1] /\ c[2] <= d[2]

find_longest_match(a, alo, ahi, b, blo, bhi) ==
    LET blocks == CommonBlocks(a, alo, ahi, b, blo, bhi)
    IN  IF blocks = {} THEN <<alo, blo, 0>>
        ELSE CHOOSE c \in blocks : \A d \in blocks : Precedes(c, d)

\* get_matching_blocks: total size of the blocks found left and right of the longest
RECURSIVE matching_size(_, _, _, _, _, _)
matching_size(a, alo, ahi, b, blo, bhi) ==
    LET x == find_longest_match(a, alo, ahi, b, blo, bhi)
    IN  IF x[3] = 0 THEN 0
        ELSE x[3] + matching_size(a, alo, x[1], b, blo, x[2])
                  + matching_size(a, x[1] + x[3], ahi, b, x[2] + x[3], bhi)

\* ratio() >= threshold, the threshold a fraction num/den; two empty texts have ratio 1.0
ratio_at_least(a, b, threshold) ==
    LET matches == matching_size(a, 1, Len(a) + 1, b, 1, Len(b) + 1)
        length  == Len(a) + Len(b)
    IN  IF length = 0 THEN threshold.den >= threshold.num
        ELSE 2 * matches * threshold.den >= threshold.num * length

-----------------------------------------------------------------------------
(* compare_strings, one per script *)

Frac(n, d) == [num |-> n, den |-> d]

compare_strings_classification(y, p, threshold) ==
    IF py_eq(y, p) THEN 1
    ELSE IF y.k = "none" \/ p.k = "none" THEN 0
    ELSE IF ratio_at_least(py_str(y), py_str(p), threshold) THEN 1 ELSE 0

compare_strings_invoice(y, p, threshold) ==
    IF py_eq(y, p) THEN 1
    ELSE IF y.k = "none" \/ p.k = "none" THEN 0
    ELSE IF ratio_at_least(py_str(y), py_str(p), threshold) THEN 1 ELSE 0

\* compare_strings without its None check: an absent value is compared as str(None)
compare_strings_unguarded(y, p, threshold) ==
    IF py_eq(y, p) THEN 1
    ELSE IF ratio_at_least(py_str(y), py_str(p), threshold) THEN 1 ELSE 0

compare_strings_parser(y, p, threshold) ==
    IF py_eq(y, p) THEN 1
    ELSE IF y.k = "none" \/ p.k = "none" THEN 0
    ELSE IF ratio_at_least(py_str(y), py_str(p), threshold) THEN 1 ELSE 0

compare_strings_summary(y, p, threshold) ==
    IF py_eq(y, p) THEN 1
    ELSE IF y.k = "none" \/ p.k = "none" THEN 0
    ELSE IF ratio_at_least(strip(py_str(y)), strip(py_str(p)), threshold) THEN 1 ELSE 0

\* norm_text without its None check: None becomes the text "None"
norm_text_unguarded(v) == Str(strip(py_str(v)))

\* norm_text keeps None and strips the text of everything else
norm_text(v) == IF v.k = "none" THEN None ELSE Str(strip(py_str(v)))

compare_strings_hscode(y, p, threshold) ==
    LET y_s == norm_text(y)
        p_s == norm_text(p)
    IN  IF y_s = p_s THEN 1
        ELSE IF y_s.k = "none" \/ p_s.k = "none" THEN 0
        ELSE IF ratio_at_least(y_s.s, p_s.s, threshold) THEN 1 ELSE 0

Variants == {"classification", "hscode", "invoice", "parser", "summary"}

compare_strings(variant, y, p, threshold) ==
    CASE variant = "classification" -> compare_strings_classification(y, p, threshold)
      [] variant = "hscode" -> compare_strings_hscode(y, p, threshold)
      [] variant = "invoice" -> compare_strings_invoice(y, p, threshold)
      [] variant = "parser" -> compare_strings_parser(y, p, threshold)
      [] variant = "summary" -> compare_strings_summary(y, p, threshold)

\* the default thresholds of the scripts, and the ends of the range
Thresholds == {Frac(0, 100), Frac(70, 100), Frac(85, 100), Frac(100, 100)}

TextChars == {"a", "5", " "}

Texts == SeqsUpTo(TextChars, MaxStrLen) \cup {<<"N", "o", "n", "e">>}

TextValues == {None, Whole(5)} \cup {Str(t) : t \in Texts}

-----------------------------------------------------------------------------
(* StrSpec: one call of compare_strings *)

StrInit ==
    /\ pc = "call"
    /\ fn \in Variants
    /\ gt \in TextValues
    /\ pred \in TextValues
    /\ par \in Thresholds
    /\ res = 0

CompareStrings ==
    /\ pc = "call"
    /\ fn \in Variants
    /\ res' = compare_strings(fn, gt, pred, par)
    /\ pc' = "done"
    /\ UNCHANGED <<fn, gt, pred, par>>

StrNext == CompareStrings

StrSpec == StrInit /\ [][StrNext]_vars

\* C7: in all five variants and for every threshold, two absent values compare
\* as 1, and an absent value against any present value compares as 0.
AbsenceAsymmetry ==
    pc = "done" =>
        /\ (gt.k = "none" /\ pred.k = "none") => res = 1
        /\ ((gt.k = "none") # (pred.k = "none")) => res = 0

AbsenceAsymmetryWitness ==
    /\ pc = "done"
    /\ gt.k = "none"
    /\ pred = Str(<<"N", "o", "n", "e">>)
    /\ par = Frac(0, 100)
    /\ fn = "hscode"
    /\ res = 0

-----------------------------------------------------------------------------
(* Numbers: a float is m * 10^e, kept canonical (e <= 0, no trailing zero   *)
(* after the point, zero is 0 * 10^0), so that == is equality of records.   *)

RECURSIVE Pow10(_)
Pow10(n) == IF n = 0 THEN 1 ELSE 10 * Pow10(n - 1)

RECURSIVE Canon(_, _)
Canon(mant, exp) ==
    IF mant = 0 THEN Num(0, 0)
    ELSE IF exp < 0 /\ mant % 10 = 0 THEN Canon(mant \div 10, exp + 1)
    ELSE Num(mant, exp)

RECURSIVE Digits(_)
Digits(n) == IF n = 0 THEN 0 ELSE 1 + Digits(n \div 10)

\* the mantissa of x at the exponent exp <= x.e
Scaled(x, exp) == IF x.m = 0 THEN 0 ELSE x.m * Pow10(x.e - exp)

num_abs(x) == Num(Abs(x.m), x.e)

num_sub(x, y) ==
    LET exp == Min(x.e, y.e)
    IN  Canon(Scaled(x, exp) - Scaled(y, exp), exp)

\* x <= y for x, y >= 0: by order of magnitude first, by mantissa when it is the same
num_leq(x, y) ==
    LET exp == Min(x.e, y.e)
    IN  IF x.m = 0 THEN TRUE
        ELSE IF y.m = 0 THEN FALSE
        ELSE IF Digits(x.m) + x.e # Digits(y.m) + y.e
             THEN Digits(x.m) + x.e < Digits(y.m) + y.e
        ELSE Scaled(x, exp) <= Scaled(y, exp)

num_max(x, y) == IF num_leq(x, y) THEN y ELSE x

\* x * (n/d) <= y, that is x * d <= y * n
num_times(x, n) == Canon(x.m * n, x.e)

IsDigit(c) == c \in {"0", "1", "2", "3", "4", "5", "6", "7", "8", "9"}

DigitValue(c) == CHOOSE d \in 0..9 : DigitChar(d) = c

RECURSIVE DigitsValue(_)
DigitsValue(t) == IF t = <<>> THEN 0
                  ELSE 10 * DigitsValue(SubSeq(t, 1, Len(t) - 1)) + DigitValue(t[Len(t)])

\* float(text): surrounding blanks, a sign, digits with at most one point
parse_float(t) ==
    LET s0     == strip(t)
        neg    == s0 # <<>> /\ Head(s0) = "-"
        body   == IF s0 # <<>> /\ Head(s0) \in {"-", "+"} THEN Tail(s0) ELSE s0
        points == {i \in 1..Len(body) : body[i] = "."}
        digs   == SelectSeq(body, IsDigit)
        frac   == IF points = {} THEN 0
                  ELSE Len(body) - (CHOOSE i \in points : TRUE)
        wellformed == /\ Cardinality(points) <= 1
                      /\ digs # <<>>
                      /\ Len(digs) + Cardinality(points) = Len(body)
        mant   == DigitsValue(digs)
    IN  IF wellformed
        THEN [ok |-> TRUE, v |-> Canon(IF neg THEN 0 - mant ELSE mant, 0 - frac)]
        ELSE [ok |-> FALSE, v |-> Num(0, 0)]

\* float(v) if v is not None else 0.0; a list or a mapping raises TypeError
coerce(v) ==
    CASE v.k = "none" -> [ok |-> TRUE, v |-> Num(0, 0)]
      [] v.k = "num" -> [ok |-> TRUE, v |-> v]
      [] v.k = "str" -> parse_float(v.s)
      [] OTHER -> [ok |-> FALSE, v |-> Num(0, 0)]

Epsilon == Num(1, 0 - 9)

\* compare_numbers with the abs() of the difference forgotten
compare_numbers_signed(y, p, tolerance) ==
    IF py_eq(y, p) THEN 1
    ELSE LET y_f == coerce(y)
             p_f == coerce(p)
             denom == num_max(num_max(num_abs(y_f.v), num_abs(p_f.v)), Epsilon)
             diff == num_sub(y_f.v, p_f.v)
         IN  IF ~y_f.ok \/ ~p_f.ok THEN 0
             ELSE IF y_f.v.m = 0 /\ p_f.v.m = 0 THEN 1
             ELSE IF diff.m < 0 THEN 1
             ELSE IF num_leq(num_times(diff, tolerance.den), num_times(denom, tolerance.num))
                  THEN 1 ELSE 0

\* compare_numbers without the shortcut for equal inputs
compare_numbers_coerced(y, p, tolerance) ==
    LET y_f == coerce(y)
        p_f == coerce(p)
        denom == num_max(num_max(num_abs(y_f.v), num_abs(p_f.v)), Epsilon)
        diff == num_abs(num_sub(y_f.v, p_f.v))
    IN  IF ~y_f.ok \/ ~p_f.ok THEN 0
        ELSE IF y_f.v.m = 0 /\ p_f.v.m = 0 THEN 1
        ELSE IF num_leq(num_times(diff, tolerance.den), num_times(denom, tolerance.num))
             THEN 1 ELSE 0

compare_numbers(y, p, tolerance) ==
    IF py_eq(y, p) THEN 1
    ELSE LET y_f == coerce(y)
             p_f == coerce(p)
             denom == num_max(num_max(num_abs(y_f.v), num_abs(p_f.v)), Epsilon)
             diff == num_abs(num_sub(y_f.v, p_f.v))
         IN  IF ~y_f.ok \/ ~p_f.ok THEN 0
             ELSE IF y_f.v.m = 0 /\ p_f.v.m = 0 THEN 1
             ELSE IF num_leq(num_times(diff, tolerance.den), num_times(denom, tolerance.num))
                  THEN 1 ELSE 0

-----------------------------------------------------------------------------
(* NumSpec: one call of compare_numbers *)

MaxNumLen == 2

Opaque(kind, id) == [k |-> kind, s |-> <<>>, m |-> id, e |-> 0]

NumChars == {"1", "5", ".", "-", " "}

NumTexts == SeqsUpTo(NumChars, MaxNumLen)
            \cup {<<"a">>, <<"1", ".", "5">>, <<"1", "0", "0", ".", "0", "5">>, <<"-", ".", "5">>}

OrdinaryNumbers == {Num(0, 0), Num(1, 0), Num(5, 0), Num(0 - 5, 0), Num(15, 0 - 1), Num(100, 0),
                    Num(10005, 0 - 2), Num(101, 0), Num(999, 0), Num(1000, 0)}

\* magnitudes around the floor 1e-9 of the denominator
TinyNumbers == {Num(1, 0 - 12), Num(3, 0 - 13), Num(2, 0 - 9), Num(2002, 0 - 12),
                Num(2003, 0 - 12), Num(0 - 1, 0 - 12)}

OrdinaryValues == {None, Opaque("list", 1), Opaque("list", 2), Opaque("dict", 1)}
                  \cup OrdinaryNumbers \cup {Str(t) : t \in NumTexts}

TinyValues == {None, Num(0, 0)} \cup TinyNumbers

NumberPairs == (OrdinaryValues \X OrdinaryValues) \cup (TinyValues \X TinyValues)

Tolerances == {Frac(1, 1000), Frac(0, 1)}

NumInit ==
    /\ pc = "call"
    /\ fn = "compare_numbers"
    /\ \E pair \in NumberPairs : gt = pair[1] /\ pred = pair[2]
    /\ par \in Tolerances
    /\ res = 0

CompareNumbers ==
    /\ pc = "call"
    /\ fn = "compare_numbers"
    /\ res' = compare_numbers(gt, pred, par)
    /\ pc' = "done"
    /\ UNCHANGED <<fn, gt, pred, par>>

NumNext == CompareNumbers

NumSpec == NumInit /\ [][NumNext]_vars

\* the decision rule with the denominator max(|a|, |b|, floor)
DecisionRule(floor) ==
    LET a == coerce(gt)
        b == coerce(pred)
        larger == num_max(num_max(num_abs(a.v), num_abs(b.v)), floor)
        within == num_leq(num_times(num_abs(num_sub(a.v, b.v)), par.den),
                          num_times(larger, par.num))
    IN  /\ res \in {0, 1}
        /\ res = 1 <=> \/ gt = pred
                       \/ a.ok /\ b.ok /\ ((a.v.m = 0 /\ b.v.m = 0) \/ within)

\* C9 as stated: 1 iff equal, or both coerce and both are zero or
\* |a-b| <= tolerance * max(|a|,|b|).
NumberRuleAsStated == pc = "done" => DecisionRule(Num(0, 0))

\* C9 amended: compare_numbers returns 0 or 1; 1 iff the inputs are equal, or
\* both coerce (None as 0) and both are zero or
\* |a-b| <= tolerance * max(|a|,|b|,1e-9); with tolerance 0.001, (100, 100.05)
\* gives 1 and (100, 101) gives 0.
NumberRule ==
    pc = "done" =>
        /\ DecisionRule(Epsilon)
        /\ (par = Frac(1, 1000) /\ gt = Num(100, 0) /\ pred = Num(10005, 0 - 2)) => res = 1
        /\ (par = Frac(1, 1000) /\ gt = Num(100, 0) /\ pred = Num(101, 0)) => res = 0
        /\ (gt # pred /\ (~coerce(gt).ok \/ ~coerce(pred).ok)) => res = 0

NumberRuleWitness ==
    /\ pc = "done"
    /\ par = Frac(1, 1000)
    /\ gt = Num(100, 0)
    /\ pred = Str(<<"1", "0", "0", ".", "0", "5">>)
    /\ res = 1

-----------------------------------------------------------------------------
(* JSON documents of the parser benchmark: a node is a scalar, a mapping     *)
(* (d: its keys to its children) or a text or list used where a mapping is   *)
(* expected, of which only the path segments it contains (has) are read.     *)

Leaf(v) == [k |-> v.k, v |-> v, has |-> {}, d |-> <<>>]

Dict(children) == [k |-> "dict", v |-> None, has |-> {}, d |-> children]

Holder(kind, segments) == [k |-> kind, v |-> None, has |-> segments, d |-> <<>>]

\* a key left out of a mapping, while a set of documents is being built
Missing == Holder("absent", {})

MkDict(children) ==
    Dict([key \in {x \in DOMAIN children : children[x] # Missing} |-> children[key]])

Returned(v) == [raised |-> FALSE, error |-> "", v |-> v]

Raised(error) == [raised |-> TRUE, error |-> error, v |-> Leaf(None)]

\* safe_get with every node that is not a mapping treated as a miss
RECURSIVE safe_get_checked(_, _)
safe_get_checked(d, keys) ==
    IF keys = <<>> THEN Returned(d)
    ELSE IF d.k # "dict" THEN Returned(Leaf(None))
    ELSE IF Head(keys) \notin DOMAIN d.d THEN Returned(Leaf(None))
    ELSE safe_get_checked(d.d[Head(keys)], Tail(keys))

\* safe_get: "k not in d" is a key test on a mapping, a substring test on a
\* text, a membership test on a list and a TypeError on a number or a boolean;
\* d[k] is a TypeError on a text and on a list
RECURSIVE safe_get(_, _)
safe_get(d, keys) ==
    IF keys = <<>> THEN Returned(d)
    ELSE IF d.k = "none" THEN Returned(Leaf(None))
    ELSE IF d.k \in {"num", "bool"} THEN Raised("TypeError")
    ELSE IF d.k \in {"str", "list"}
         THEN IF Head(keys) \in d.has THEN Raised("TypeError") ELSE Returned(Leaf(None))
    ELSE IF Head(keys) \notin DOMAIN d.d THEN Returned(Leaf(None))
    ELSE safe_get(d.d[Head(keys)], Tail(keys))

fields_to_check == <<
    <<"seller_name">>,
    <<"fields", "field_6">>,
    <<"fields", "field_10", "subfield_a">>,
    <<"fields", "field_10", "subfield_b">>,
    <<"fields", "field_15">>,
    <<"fields", "field_15a", "subfield_a">>,
    <<"fields", "field_15a", "subfield_b">>,
    <<"fields", "field_17">>,
    <<"fields", "field_17a", "subfield_a">>,
    <<"fields", "field_17a", "subfield_b">>,
    <<"fields", "field_18", "subfield_left">>,
    <<"fields", "field_18", "subfield_right">>,
    <<"fields", "field_19">>,
    <<"fields", "field_21", "subfield_left">>,
    <<"fields", "field_21", "subfield_right">>,
    <<"fields", "field_31", "subfield_1_left">>,
    <<"fields", "field_31", "subfield_1_right">>,
    <<"fields", "field_31", "subfield_2">> >>

ParserThreshold == Frac(85, 100)

RECURSIVE SumOver(_, _)
SumOver(f, n) == IF n = 0 THEN 0 ELSE f[n] + SumOver(f, n - 1)

\* evaluate of the parser benchmark: (results, accuracy), or the exception of safe_get
parser_evaluate(g, p) ==
    LET n        == Len(fields_to_check)
        gt_val   == [i \in 1..n |-> safe_get(g, fields_to_check[i])]
        pred_val == [i \in 1..n |-> safe_get(p, fields_to_check[i])]
        results  == [i \in 1..n |->
                        compare_strings_parser(gt_val[i].v.v, pred_val[i].v.v, ParserThreshold)]
        correct  == SumOver(results, n)
    IN  IF \E i \in 1..n : gt_val[i].raised \/ pred_val[i].raised
        THEN [raised |-> TRUE, results |-> <<>>, correct |-> 0,
              accuracy |-> Frac(0, 1)]
        ELSE [raised |-> FALSE, results |-> results, correct |-> correct,
              accuracy |-> Frac(correct * 100, n)]

-----------------------------------------------------------------------------
(* PathSpec: one call of safe_get, or one call of the parser's evaluate *)

ParserLeaves == {Missing, Leaf(None), Leaf(Str(<<"a">>)), Leaf(Str(<<"a", "b">>)), Leaf(Whole(5)),
                 Leaf(Str(<<"N", "o", "n", "e">>))}

SubfieldNodes ==
    {MkDict([x \in {"subfield_a", "subfield_b"} |-> IF x = "subfield_a" THEN a ELSE b]) :
        a \in ParserLeaves, b \in {Missing, Leaf(Str(<<"a">>))}}
    \cup {Missing, Leaf(None), Leaf(Whole(5)), Holder("bool", {}), Holder("list", {}),
          Holder("list", {"subfield_a"}), Holder("str", {}), Holder("str", {"subfield_a"})}

FieldsNodes ==
    {MkDict([x \in {"field_6", "field_10"} |-> IF x = "field_6" THEN a ELSE b]) :
        a \in ParserLeaves, b \in SubfieldNodes}
    \cup {Missing, Leaf(None), Leaf(Whole(5)), Holder("bool", {}), Holder("list", {}),
          Holder("str", {}), Holder("str", {"field_6"})}

ParserDocs ==
    {MkDict([x \in {"seller_name", "fields"} |-> IF x = "seller_name" THEN a ELSE b]) :
        a \in {Missing, Leaf(Str(<<"a">>))}, b \in FieldsNodes}

Paths == {fields_to_check[i] : i \in 1..4}
         \cup {<<"fields">>, <<"fields", "field_6", "subfield_a">>, <<"fields", "field_10">>}

PathInit ==
    /\ pc = "call"
    /\ \/ fn = "safe_get" /\ gt \in ParserDocs /\ pred = Leaf(None) /\ par \in Paths
       \/ fn = "parser" /\ gt \in ParserDocs /\ pred \in ParserDocs /\ par = <<>>
    /\ res = 0

SafeGet ==
    /\ pc = "call"
    /\ fn = "safe_get"
    /\ res' = safe_get(gt, par)
    /\ pc' = "done"
    /\ UNCHANGED <<fn, gt, pred, par>>

EvaluateParser ==
    /\ pc = "call"
    /\ fn = "parser"
    /\ res' = parser_evaluate(gt, pred)
    /\ pc' = "done"
    /\ UNCHANGED <<fn, gt, pred, par>>

PathNext == SafeGet \/ EvaluateParser

PathSpec == PathInit /\ [][PathNext]_vars

\* C5 as stated: safe_get never raises; it returns None as soon as the current
\* node is not a mapping or the segment is not a key of it, and the leaf
\* otherwise.
PathResolverNeverRaises ==
    (pc = "done" /\ fn = "safe_get") => res = safe_get_checked(gt, par)

RECURSIVE PathExists(_, _)
PathExists(d, keys) ==
    \/ keys = <<>>
    \/ /\ d.k = "dict"
       /\ Head(keys) \in DOMAIN d.d
       /\ PathExists(d.d[Head(keys)], Tail(keys))

FieldIndexes == 1..Len(fields_to_check)

-----------------------------------------------------------------------------
(* List-valued sections: the value found under "items" or "files" and its     *)
(* entries.  An entry is a mapping (d: its fields) or a scalar or list (v);   *)
(* the value is a list (v: its entries), or a text, a number, null, a         *)
(* mapping, or absent.  A text is the list of its characters and a mapping    *)
(* the list of its keys wherever the code iterates or takes len().            *)

Absent == [k |-> "absent", s |-> <<>>, m |-> 0, e |-> 0]

MapEntry(fields) == [k |-> "dict", v |-> None, d |-> fields]

ScalarEntry(v, nofields) == [k |-> v.k, v |-> v, d |-> nofields]

ListOf(entries) == [k |-> "list", v |-> entries, m |-> 0]

TextOf(chars) == [k |-> "str", v |-> chars, m |-> 0]

KeysOf(keys) == [k |-> "dict", v |-> keys, m |-> 0]

NumberOf(n) == [k |-> "num", v |-> <<>>, m |-> n]

NullValue == [k |-> "none", v |-> <<>>, m |-> 0]

AbsentValue == [k |-> "absent", v |-> <<>>, m |-> 0]

\* bool(x) of a scalar and of a list-valued section
truthy(v) ==
    CASE v.k = "str" -> v.s # <<>>
      [] v.k \in {"num", "list", "dict"} -> v.m # 0
      [] OTHER -> FALSE

section_truthy(c) ==
    CASE c.k \in {"list", "str", "dict"} -> c.v # <<>>
      [] c.k = "num" -> c.m # 0
      [] OTHER -> FALSE

\* obj.get(key, [])
get_or_default(c) == IF c.k = "absent" THEN ListOf(<<>>) ELSE c

\* obj.get(key, []) or []
get_or_empty(c) == IF section_truthy(c) THEN c ELSE ListOf(<<>>)

\* d.get(key, default) and d.get(key) on the fields of an entry
field_or(value, default) == IF value.k = "absent" THEN default ELSE value

field(value) == field_or(value, None)

-----------------------------------------------------------------------------
(* Percentages: correct / total * 100 kept as the fraction it is computed from *)

Pct(count, total) == Frac(count * 100, total)

\* the percentage over max(total, 1) in place of the guard
FlooredPct(count, total) == Pct(count, Max(total, 1))

GuardedPct(count, total) == IF total # 0 THEN Pct(count, total) ELSE Frac(0, 1)

IsPct(p, value) == p.num = value * p.den

-----------------------------------------------------------------------------
(* The classification benchmark *)

ClassificationThreshold == Frac(85, 100)

NoFileFields == [path |-> Absent, type |-> Absent]

\* the loop of build_path_map over the first n entries: a later entry with the
\* same path replaces an earlier one, an entry with an empty path is skipped
RECURSIVE path_map_loop(_, _)
path_map_loop(files, n) ==
    IF n = 0 THEN <<>>
    ELSE LET result == path_map_loop(files, n - 1)
             f      == files[n].d
             path   == strip(py_str(field_or(f.path, Str(<<>>))))
             ftype  == strip(py_str(field_or(f.type, Str(<<>>))))
         IN  IF path # <<>>
             THEN [x \in DOMAIN result \cup {path} |-> IF x = path THEN ftype ELSE result[x]]
             ELSE result

\* build_path_map: iterating null or a number raises TypeError, f.get on an
\* entry that is not a mapping raises AttributeError
build_path_map(obj) ==
    LET files == get_or_default(obj.files)
    IN  IF files.k \in {"none", "num"}
        THEN [raised |-> TRUE, error |-> "TypeError", map |-> <<>>]
        ELSE IF \E i \in 1..Len(files.v) : files.v[i].k # "dict"
        THEN [raised |-> TRUE, error |-> "AttributeError", map |-> <<>>]
        ELSE [raised |-> FALSE, error |-> "", map |-> path_map_loop(files.v, Len(files.v))]

RECURSIVE SumSet(_, _)
SumSet(f, S) == IF S = {} THEN 0
                ELSE LET x == CHOOSE y \in S : TRUE IN f[x] + SumSet(f, S \ {x})

\* the body of evaluate over the two path maps, the accuracy over `denominator`
classification_report(gt_map, pred_map, denominator) ==
    LET gt_paths     == DOMAIN gt_map
        pred_paths   == DOMAIN pred_map
        common_paths == gt_paths \cap pred_paths
        match        == [path \in common_paths |->
                            compare_strings_classification(Str(gt_map[path]), Str(pred_map[path]),
                                                           ClassificationThreshold)]
        correct      == SumSet(match, common_paths)
        types        == {gt_map[path] : path \in common_paths}
        per_type_stats ==
            [t \in types |->
                [total   |-> Cardinality({path \in common_paths : gt_map[path] = t}),
                 correct |-> SumSet(match, {path \in common_paths : gt_map[path] = t})]]
    IN  [raised |-> FALSE,
         n_items |-> Cardinality(gt_paths),
         accuracy |-> GuardedPct(correct, denominator),
         correct |-> correct,
         missing_items |-> Cardinality(gt_paths \ pred_paths),
         extra_items |-> Cardinality(pred_paths \ gt_paths),
         per_type |-> [t \in types |-> Pct(per_type_stats[t].correct, per_type_stats[t].total)]]

\* evaluate with the accuracy taken over the common paths instead of len(gt_map)
classification_evaluate_common(g, p) ==
    LET gt_map   == build_path_map(g)
        pred_map == build_path_map(p)
    IN  IF gt_map.raised \/ pred_map.raised
        THEN [raised |-> TRUE]
        ELSE classification_report(gt_map.map, pred_map.map,
                                   Cardinality(DOMAIN gt_map.map \cap DOMAIN pred_map.map))

classification_evaluate(g, p) ==
    LET gt_map   == build_path_map(g)
        pred_map == build_path_map(p)
    IN  IF gt_map.raised \/ pred_map.raised
        THEN [raised |-> TRUE]
        ELSE classification_report(gt_map.map, pred_map.map, Cardinality(DOMAIN gt_map.map))

-----------------------------------------------------------------------------
(* ClsSpec: one call of the classification benchmark's evaluate *)

MaxFiles == 2

RECURSIVE ListsUpTo(_, _)
ListsUpTo(entries, n) ==
    IF n = 0 THEN {<<>>}
    ELSE LET shorter == ListsUpTo(entries, n - 1)
         IN  shorter \cup {Append(l, x) : l \in {y \in shorter : Len(y) = n - 1}, x \in entries}

Invoice == <<"i", "n", "v", "o", "i", "c", "e">>

Receipt == <<"r", "e", "c", "e", "i", "p", "t">>

FileOf(path, type) == MapEntry([path |-> path, type |-> type])

\* a.pdf, b.pdf and c.pdf are the paths "a", "b" and "c"; "invoices" is within
\* the threshold of "invoice", "receipt" is not
FileEntries ==
    {FileOf(Str(<<"a">>), Str(Invoice)),
     FileOf(Str(<<"a">>), Str(Append(Invoice, "s"))),
     FileOf(Str(<<"a", " ">>), Str(Receipt)),
     FileOf(Str(<<"b">>), Str(Receipt)),
     FileOf(Str(<<"c">>), Str(Receipt)),
     FileOf(Absent, Str(Invoice)),
     ScalarEntry(None, NoFileFields)}

ClassificationDocs ==
    {[files |-> ListOf(l)] : l \in ListsUpTo(FileEntries, MaxFiles)}
    \cup {[files |-> AbsentValue], [files |-> NullValue], [files |-> NumberOf(5)],
          [files |-> TextOf(<<ScalarEntry(Str(<<"a">>), NoFileFields)>>)]}

ClsInit ==
    /\ pc = "call"
    /\ fn = "classification"
    /\ gt \in ClassificationDocs
    /\ pred \in ClassificationDocs
    /\ par = ClassificationThreshold
    /\ res = 0

EvaluateClassification ==
    /\ pc = "call"
    /\ fn = "classification"
    /\ res' = classification_evaluate(gt, pred)
    /\ pc' = "done"
    /\ UNCHANGED <<fn, gt, pred, par>>

ClsNext == EvaluateClassification

ClsSpec == ClsInit /\ [][ClsNext]_vars

\* the non-empty stripped paths of a document, and the type of the last entry
\* with a given path
PathsOf(doc) ==
    {strip(py_str(field_or(doc.files.v[i].d.path, Str(<<>>)))) : i \in 1..Len(doc.files.v)}
        \ {<<>>}

TypeAt(doc, path) ==
    LET files == doc.files.v
        last  == CHOOSE i \in 1..Len(files) :
                    /\ strip(py_str(field_or(files[i].d.path, Str(<<>>)))) = path
                    /\ \A j \in (i + 1)..Len(files) :
                          strip(py_str(field_or(files[j].d.path, Str(<<>>)))) # path
    IN  strip(py_str(field_or(files[last].d.type, Str(<<>>))))

Matching(path) ==
    compare_strings_classification(Str(TypeAt(gt, path)), Str(TypeAt(pred, path)),
                                   ClassificationThreshold) = 1

ScenarioGt == [files |-> ListOf(<<FileOf(Str(<<"a">>), Str(Invoice)),
                                  FileOf(Str(<<"b">>), Str(Receipt))>>)]

ScenarioPred == [files |-> ListOf(<<FileOf(Str(<<"a">>), Str(Invoice)),
                                    FileOf(Str(<<"c">>), Str(Receipt))>>)]

KeyCounts ==
    /\ res.missing_items = Cardinality(PathsOf(gt) \ PathsOf(pred))
    /\ res.extra_items = Cardinality(PathsOf(pred) \ PathsOf(gt))
    /\ res.n_items = Cardinality(PathsOf(gt))

\* C3 as stated: missing = |G \ P|, extra = |P \ G|, n_items = |G|, and the
\* accuracy is 100% when every common path has a matching type.
KeyAlignmentAsStated ==
    (pc = "done" /\ ~res.raised) =>
        /\ KeyCounts
        /\ (PathsOf(gt) \cap PathsOf(pred) # {}
              /\ \A path \in PathsOf(gt) \cap PathsOf(pred) : Matching(path))
            => IsPct(res.accuracy, 100)

\* C3 amended: missing = |G \ P|, extra = |P \ G|, n_items = |G|; only the
\* common paths are scored, but the accuracy is the number of matching common
\* paths divided by |G| (0 when G is empty), and the per-type accuracy is taken
\* over the common paths; in the scenario missing 1, extra 1, n_items 2,
\* accuracy 50% and 100% for the type 'invoice'.
KeyAlignment ==
    (pc = "done" /\ ~res.raised) =>
        LET common  == PathsOf(gt) \cap PathsOf(pred)
            matched == {path \in common : Matching(path)}
        IN  /\ KeyCounts
            /\ res.correct = Cardinality(matched)
            /\ PathsOf(gt) = {} => IsPct(res.accuracy, 0)
            /\ res.accuracy.num * Cardinality(PathsOf(gt)) = 100 * Cardinality(matched) * res.accuracy.den
            /\ DOMAIN res.per_type = {TypeAt(gt, path) : path \in common}
            /\ \A t \in DOMAIN res.per_type :
                  res.per_type[t].num * Cardinality({path \in common : TypeAt(gt, path) = t})
                    = 100 * Cardinality({path \in matched : TypeAt(gt, path) = t}) * res.per_type[t].den
            /\ (gt = ScenarioGt /\ pred = ScenarioPred) =>
                  /\ res.missing_items = 1 /\ res.extra_items = 1 /\ res.n_items = 2
                  /\ IsPct(res.accuracy, 50)
                  /\ IsPct(res.per_type[Invoice], 100)

KeyAlignmentWitness ==
    /\ pc = "done"
    /\ gt = ScenarioGt
    /\ pred = ScenarioPred
    /\ ~res.raised
    /\ res.correct = 1
    /\ res.missing_items = 1

-----------------------------------------------------------------------------
(* Entries of an "items" list, as the positional evaluators read them *)

\* (items[i] or {}).get: an entry that is not a mapping is replaced by {} when
\* it is falsy, and raises AttributeError when it is not
as_mapping(entry, nofields) ==
    IF entry.k = "dict" THEN [raised |-> FALSE, d |-> entry.d]
    ELSE IF truthy(entry.v) THEN [raised |-> TRUE, d |-> nofields]
    ELSE [raised |-> FALSE, d |-> nofields]

\* len(items) raises TypeError on a number; items[i] raises KeyError on a mapping
len_raises(items) == items.k = "num"

index_raises(items) == items.k = "dict"

-----------------------------------------------------------------------------
(* The commodity-code benchmark *)

MaxPrefix == 10

normalize_hs(code) ==
    IF code.k = "none" THEN <<>>
    ELSE SelectSeq(strip(py_str(code)), IsDigit)

isdigit(t) == t # <<>> /\ \A i \in 1..Len(t) : IsDigit(t[i])

is_valid_hs_10(code_digits) == Len(code_digits) = 10 /\ isdigit(code_digits)

is_valid_hs_6plus(code_digits) ==
    Len(code_digits) >= 6 /\ isdigit(SubSeq(code_digits, 1, 6))

\* prefix_match comparing the k-th digit alone instead of the first k digits
prefix_match_kth_digit(gt_digits, pred_digits, k) ==
    IF Len(gt_digits) < k \/ Len(pred_digits) < k THEN 0
    ELSE IF gt_digits[k] = pred_digits[k] THEN 1 ELSE 0

prefix_match(gt_digits, pred_digits, k) ==
    IF Len(gt_digits) < k \/ Len(pred_digits) < k THEN 0
    ELSE IF SubSeq(gt_digits, 1, k) = SubSeq(pred_digits, 1, k) THEN 1 ELSE 0

Flag(b) == IF b THEN 1 ELSE 0

NoHsFields == [item_name |-> Absent, hs_code |-> Absent]

hscode_evaluate(g, p, min_sim) ==
    LET gt_items == get_or_empty(g.items)
        pr_items == get_or_empty(p.items)
        n_gt     == Len(gt_items.v)
        n_pr     == Len(pr_items.v)
        items_to_compare == Min(n_gt, n_pr)
        seller_match == compare_strings_hscode(field(g.seller_name), field(p.seller_name), min_sim)
        g_map == [i \in 1..n_gt |-> as_mapping(gt_items.v[i], NoHsFields)]
        p_map == [i \in 1..items_to_compare |-> as_mapping(pr_items.v[i], NoHsFields)]
        g_hs  == [i \in 1..n_gt |-> normalize_hs(field(g_map[i].d.hs_code))]
        p_hs  == [i \in 1..items_to_compare |-> normalize_hs(field(p_map[i].d.hs_code))]
        gt_valid_10 == SumOver([i \in 1..n_gt |-> Flag(is_valid_hs_10(g_hs[i]))], n_gt)
        gt_valid_6  == SumOver([i \in 1..n_gt |-> Flag(is_valid_hs_6plus(g_hs[i]))], n_gt)
        pr_valid_10 == SumOver([i \in 1..items_to_compare |-> Flag(is_valid_hs_10(p_hs[i]))],
                               items_to_compare)
        pr_valid_6  == SumOver([i \in 1..items_to_compare |-> Flag(is_valid_hs_6plus(p_hs[i]))],
                               items_to_compare)
        item_name_matches ==
            SumOver([i \in 1..items_to_compare |->
                        compare_strings_hscode(field(g_map[i].d.item_name),
                                               field(p_map[i].d.item_name), min_sim)],
                    items_to_compare)
        prefix_hits == [k \in 1..MaxPrefix |->
                           SumOver([i \in 1..items_to_compare |-> prefix_match(g_hs[i], p_hs[i], k)],
                                   items_to_compare)]
        acc == [k \in 1..MaxPrefix |-> GuardedPct(prefix_hits[k], n_gt)]
        \* what the pass of the loop over item i raises, "" when it raises nothing
        error_at == [i \in 1..n_gt |->
                        IF index_raises(gt_items) THEN "KeyError"
                        ELSE IF g_map[i].raised THEN "AttributeError"
                        ELSE IF i > items_to_compare THEN ""
                        ELSE IF index_raises(pr_items) THEN "KeyError"
                        ELSE IF p_map[i].raised THEN "AttributeError"
                        ELSE ""]
        failing == {i \in 1..n_gt : error_at[i] # ""}
    IN  IF len_raises(gt_items) \/ len_raises(pr_items)
        THEN [raised |-> TRUE, error |-> "TypeError"]
        ELSE IF failing # {}
        THEN [raised |-> TRUE, error |-> error_at[CHOOSE i \in failing : \A j \in failing : i <= j]]
        ELSE [raised |-> FALSE,
              n_items |-> n_gt,
              seller_name_match |-> Frac(seller_match * 100, 1),
              item_name_match_table |-> GuardedPct(item_name_matches, n_gt),
              y_10_match_table |-> GuardedPct(gt_valid_10, n_gt),
              y_6_match_table |-> GuardedPct(gt_valid_6, n_gt),
              pred_10_match_table |-> GuardedPct(pr_valid_10, n_gt),
              pred_6_match_table |-> GuardedPct(pr_valid_6, n_gt),
              accuracy_10 |-> acc[10],
              accuracy_6 |-> acc[6],
              metadata |-> acc]

-----------------------------------------------------------------------------
(* HsSpec: one call of prefix_match for every prefix length, or one call of   *)
(* the commodity-code benchmark's evaluate                                    *)

MaxCodeLen == 11

MaxItems == 2

\* len digits, all 1 but a 2 at position `at` (none when at = 0)
CodeText(len, at) == [i \in 1..len |-> IF i = at THEN "2" ELSE "1"]

Codes == {CodeText(len, at) : len \in 0..MaxCodeLen, at \in 0..MaxCodeLen}

HsItem(name, code) == MapEntry([item_name |-> name, hs_code |-> code])

Dotted(code) == SubSeq(code, 1, 4) \o <<".">> \o SubSeq(code, 5, 6) \o <<".">>
                \o SubSeq(code, 7, Len(code))

HsEntries ==
    {HsItem(Str(<<"a">>), Str(Dotted(CodeText(10, 0)))),
     HsItem(Str(<<"a", " ">>), Str(CodeText(10, 7))),
     HsItem(Str(<<"a", "b">>), Str(CodeText(6, 0))),
     HsItem(None, Str(<<"a", "-">>)),
     ScalarEntry(None, NoHsFields),
     ScalarEntry(Str(<<"x">>), NoHsFields)}

HsSections ==
    {ListOf(l) : l \in ListsUpTo(HsEntries, MaxItems)}
    \cup {AbsentValue, NumberOf(5), TextOf(<<ScalarEntry(Str(<<"a">>), NoHsFields)>>),
          KeysOf(<<ScalarEntry(Str(<<"a">>), NoHsFields)>>)}

HsDocs == {[seller_name |-> Str(<<"a">>), items |-> x] : x \in HsSections}
          \cup {[seller_name |-> Absent, items |-> ListOf(<<>>)]}

HsThreshold == Frac(85, 100)

HsInit ==
    /\ pc = "call"
    /\ \/ fn = "prefix_match" /\ gt \in Codes /\ pred \in Codes /\ par = MaxPrefix
       \/ fn = "hscode" /\ gt \in HsDocs /\ pred \in HsDocs /\ par = HsThreshold
    /\ res = 0

PrefixMatch ==
    /\ pc = "call"
    /\ fn = "prefix_match"
    /\ res' = [k \in 1..par |-> prefix_match(gt, pred, k)]
    /\ pc' = "done"
    /\ UNCHANGED <<fn, gt, pred, par>>

EvaluateHscode ==
    /\ pc = "call"
    /\ fn = "hscode"
    /\ res' = hscode_evaluate(gt, pred, par)
    /\ pc' = "done"
    /\ UNCHANGED <<fn, gt, pred, par>>

HsNext == PrefixMatch \/ EvaluateHscode

HsSpec == HsInit /\ [][HsNext]_vars

\* p <= q for two percentages
PctLeq(p, q) == p.num * q.den <= q.num * p.den

\* C8: prefix_match(gt, pred, k+1) <= prefix_match(gt, pred, k) for k in 1..9,
\* and the accuracy_1..accuracy_10 curve reported by the commodity-code
\* evaluator is non-increasing in k.
PrefixMonotone ==
    /\ (pc = "done" /\ fn = "prefix_match") =>
          \A k \in 1..(MaxPrefix - 1) : res[k + 1] <= res[k]
    /\ (pc = "done" /\ fn = "hscode" /\ ~res.raised) =>
          \A k \in 1..(MaxPrefix - 1) : PctLeq(res.metadata[k + 1], res.metadata[k])

PrefixMonotoneWitness ==
    /\ pc = "done"
    /\ fn = "hscode"
    /\ ~res.raised
    /\ IsPct(res.metadata[6], 100)
    /\ IsPct(res.metadata[7], 50)
    /\ IsPct(res.metadata[10], 50)

-----------------------------------------------------------------------------
(* The invoice benchmark *)

InvoiceThreshold == Frac(70, 100)

InvoiceTolerance == Frac(1, 1000)

NoInvoiceFields == [item_name |-> Absent, quantity |-> Absent, unit_price |-> Absent,
                    total_price |-> Absent]

\* evaluate; `missing` is the missing_items of the report it returns
invoice_report(y, p, missing) ==
    LET y_items    == get_or_empty(y.items)
        pred_items == get_or_empty(p.items)
        n_y        == Len(y_items.v)
        n_p        == Len(pred_items.v)
        items_to_compare == Min(n_y, n_p)
        y_item == [i \in 1..items_to_compare |-> as_mapping(y_items.v[i], NoInvoiceFields)]
        p_item == [i \in 1..items_to_compare |-> as_mapping(pred_items.v[i], NoInvoiceFields)]
        error_at == [i \in 1..items_to_compare |->
                        IF index_raises(y_items) \/ index_raises(pred_items) THEN "KeyError"
                        ELSE IF y_item[i].raised \/ p_item[i].raised THEN "AttributeError"
                        ELSE ""]
        failing == {i \in 1..items_to_compare : error_at[i] # ""}
        names == [i \in 1..items_to_compare |->
                    compare_strings_invoice(field(y_item[i].d.item_name),
                                            field(p_item[i].d.item_name), InvoiceThreshold)]
        quantities == [i \in 1..items_to_compare |->
                    compare_numbers(field(y_item[i].d.quantity),
                                    field(p_item[i].d.quantity), InvoiceTolerance)]
        unit_prices == [i \in 1..items_to_compare |->
                    compare_numbers(field(y_item[i].d.unit_price),
                                    field(p_item[i].d.unit_price), InvoiceTolerance)]
        total_prices == [i \in 1..items_to_compare |->
                    compare_numbers(field(y_item[i].d.total_price),
                                    field(p_item[i].d.total_price), InvoiceTolerance)]
    IN  IF len_raises(y_items) \/ len_raises(pred_items)
        THEN [raised |-> TRUE, error |-> "TypeError"]
        ELSE IF failing # {}
        THEN [raised |-> TRUE, error |-> error_at[CHOOSE i \in failing : \A j \in failing : i <= j]]
        ELSE [raised |-> FALSE,
              seller_name |-> compare_strings_invoice(field(y.seller_name), field(p.seller_name),
                                                      InvoiceThreshold),
              sum_total_quantity |-> compare_numbers(field(y.sum_total_quantity),
                                                     field(p.sum_total_quantity), InvoiceTolerance),
              sum_total_price |-> compare_numbers(field(y.sum_total_price),
                                                  field(p.sum_total_price), InvoiceTolerance),
              currency |-> compare_strings_invoice(field(y.currency), field(p.currency),
                                                   InvoiceThreshold),
              n_items |-> n_y,
              item_count_match |-> Flag(n_y = n_p),
              missing_items |-> missing,
              extra_items |-> Max(0, n_p - n_y),
              items |-> [item_name |-> SumOver(names, items_to_compare),
                         quantity |-> SumOver(quantities, items_to_compare),
                         unit_price |-> SumOver(unit_prices, items_to_compare),
                         total_price |-> SumOver(total_prices, items_to_compare)]]

\* evaluate with missing_items taken without the max(0, ...)
invoice_evaluate_unclamped(y, p) ==
    invoice_report(y, p, Len(get_or_empty(y.items).v) - Len(get_or_empty(p.items).v))

invoice_evaluate(y, p) ==
    invoice_report(y, p, Max(0, Len(get_or_empty(y.items).v) - Len(get_or_empty(p.items).v)))

\* the result that main builds from evaluate's: every count over n = max(n_items, 1)
invoice_main(r) ==
    IF r.raised THEN r
    ELSE LET n == Max(r.n_items, 1)
         IN  [raised |-> FALSE,
              res |-> r,
              overall_score |->
                  Frac(100 * (n * (r.seller_name + r.sum_total_price + r.currency + r.item_count_match)
                              + r.items.item_name + r.items.quantity
                              + r.items.unit_price + r.items.total_price), 8 * n),
              result |->
                  [seller_name |-> Frac(r.seller_name * 100, 1),
                   sum_total_quantity |-> Frac(r.sum_total_quantity * 100, 1),
                   sum_total_price |-> Frac(r.sum_total_price * 100, 1),
                   currency |-> Frac(r.currency * 100, 1),
                   n_items |-> r.n_items,
                   item_count_match |-> Frac(r.item_count_match * 100, 1),
                   missing_items |-> Pct(r.missing_items, n),
                   extra_items |-> Pct(r.extra_items, n),
                   items |-> [item_name |-> Pct(r.items.item_name, n),
                              quantity |-> Pct(r.items.quantity, n),
                              unit_price |-> Pct(r.items.unit_price, n),
                              total_price |-> Pct(r.items.total_price, n)]]]

-----------------------------------------------------------------------------
(* The summary benchmark: an item is a mapping of code to text, d the        *)
(* sequence of its (key, value) pairs in order                               *)

Pair(hs, txt) == [hs |-> hs, txt |-> txt]

\* the pairs of one item: one per key of a mapping, ("", "") for anything else
pairs_of(it) ==
    IF it.k = "dict"
    THEN [j \in 1..Len(it.d) |->
            Pair(normalize_hs(Str(it.d[j].key)),
                 IF it.d[j].val.k = "none" THEN <<>> ELSE py_str(it.d[j].val))]
    ELSE <<Pair(<<>>, <<>>)>>

RECURSIVE pairs_loop(_, _)
pairs_loop(items, n) ==
    IF n = 0 THEN <<>> ELSE pairs_loop(items, n - 1) \o pairs_of(items[n])

\* extract_pairs: iterating a number raises TypeError
extract_pairs(obj) ==
    LET items == get_or_empty(obj.items)
    IN  IF items.k = "num" THEN [raised |-> TRUE, pairs |-> <<>>]
        ELSE [raised |-> FALSE, pairs |-> pairs_loop(items.v, Len(items.v))]

\* the body of evaluate over the two lists of pairs
summary_report(g, p, min_sim, gt_pairs, pr_pairs) ==
    LET n_gt == Len(gt_pairs)
        n_pr == Len(pr_pairs)
        items_to_compare == Min(n_gt, n_pr)
        pr_valid_hs10 ==
            SumOver([i \in 1..n_pr |-> Flag(is_valid_hs_10(pr_pairs[i].hs))], n_pr)
        hs_exact ==
            SumOver([i \in 1..items_to_compare |->
                        Flag(gt_pairs[i].hs # <<>> /\ pr_pairs[i].hs # <<>>
                             /\ gt_pairs[i].hs = pr_pairs[i].hs)], items_to_compare)
        summary_match ==
            SumOver([i \in 1..items_to_compare |->
                        compare_strings_summary(Str(gt_pairs[i].txt), Str(pr_pairs[i].txt), min_sim)],
                    items_to_compare)
    IN  [raised |-> FALSE,
         n_items |-> n_gt,
         seller_pct |-> Frac(compare_strings_summary(field(g.seller_name), field(p.seller_name),
                                                     min_sim) * 100, 1),
         hs_pct |-> GuardedPct(hs_exact, n_gt),
         summary_pct |-> GuardedPct(summary_match, n_gt),
         item_count_pct |-> Frac(Flag(n_gt = n_pr) * 100, 1),
         missing_items |-> Max(0, n_gt - n_pr),
         extra_items |-> Max(0, n_pr - n_gt),
         pred_hs10_valid_pct |-> GuardedPct(pr_valid_hs10, n_gt)]

summary_evaluate(g, p, min_sim) ==
    LET gt_pairs == extract_pairs(g)
        pr_pairs == extract_pairs(p)
    IN  IF gt_pairs.raised \/ pr_pairs.raised
        THEN [raised |-> TRUE, error |-> "TypeError"]
        ELSE summary_report(g, p, min_sim, gt_pairs.pairs, pr_pairs.pairs)

-----------------------------------------------------------------------------
(* AlignSpec: one call of a positionally aligned evaluate, the predicted      *)
(* list up to two items longer than the longest ground truth                  *)

MaxGtItems == 3

MaxPredItems == 5

InvoiceItem(name, quantity, unit_price, total_price) ==
    MapEntry([item_name |-> name, quantity |-> quantity, unit_price |-> unit_price,
              total_price |-> total_price])

InvoiceDoc(seller, currency, quantity, price, items) ==
    [seller_name |-> seller, currency |-> currency, sum_total_quantity |-> quantity,
     sum_total_price |-> price, items |-> items]

KeyVal(key, val) == [key |-> key, val |-> val]

SummaryItem(pairs) == MapEntry(pairs)

AlignedHsEntries ==
    {HsItem(Str(<<"a">>), Str(Dotted(CodeText(10, 0)))),
     HsItem(Str(<<"a", "b">>), Str(CodeText(6, 0)))}

AlignedInvoiceEntries ==
    {InvoiceItem(Str(<<"a">>), Whole(5), Whole(100), Whole(100)),
     InvoiceItem(Str(<<"a", "b">>), Str(<<"5">>), Num(10005, 0 - 2), Whole(101))}

AlignedSummaryEntries ==
    {SummaryItem(<<KeyVal(CodeText(10, 0), Str(<<"a">>))>>),
     SummaryItem(<<KeyVal(CodeText(6, 0), Str(<<"a", "b">>))>>),
     SummaryItem(<<KeyVal(CodeText(10, 0), Str(<<"a">>)), KeyVal(CodeText(10, 7), Str(<<"a">>))>>)}

AlignedEntries(f) ==
    CASE f = "hscode" -> AlignedHsEntries
      [] f = "invoice" -> AlignedInvoiceEntries
      [] f = "summary" -> AlignedSummaryEntries

AlignedDoc(f, l) ==
    IF f = "invoice"
    THEN InvoiceDoc(Str(<<"a">>), Str(<<"5">>), Whole(5), Whole(100), ListOf(l))
    ELSE [seller_name |-> Str(<<"a">>), items |-> ListOf(l)]

AlignInit ==
    /\ pc = "call"
    /\ fn \in {"hscode", "invoice", "summary"}
    /\ gt \in {AlignedDoc(fn, l) : l \in ListsUpTo(AlignedEntries(fn), MaxGtItems)}
    /\ pred \in {AlignedDoc(fn, l) : l \in ListsUpTo(AlignedEntries(fn), MaxPredItems)}
    /\ par = IF fn = "invoice" THEN InvoiceThreshold ELSE HsThreshold
    /\ res = 0

EvaluateInvoice ==
    /\ pc = "call"
    /\ fn = "invoice"
    /\ res' = invoice_main(invoice_evaluate(gt, pred))
    /\ pc' = "done"
    /\ UNCHANGED <<fn, gt, pred, par>>

EvaluateSummary ==
    /\ pc = "call"
    /\ fn = "summary"
    /\ res' = summary_evaluate(gt, pred, par)
    /\ pc' = "done"
    /\ UNCHANGED <<fn, gt, pred, par>>

AlignNext == EvaluateHscode \/ EvaluateInvoice \/ EvaluateSummary

AlignSpec == AlignInit /\ [][AlignNext]_vars

\* the number of aligned items of a document: the entries of its list, for
\* the summary benchmark the (code, text) pairs of its entries
RECURSIVE KeyCount(_, _)
KeyCount(items, n) == IF n = 0 THEN 0 ELSE Len(items[n].d) + KeyCount(items, n - 1)

ItemCount(f, doc) ==
    IF f = "summary" THEN KeyCount(doc.items.v, Len(doc.items.v)) ELSE Len(doc.items.v)

\* the counts of C10 for ground-truth and predicted lengths n_gt and n_pred
CountsFor(n_gt, n_pred) ==
    LET least  == IF n_gt <= n_pred THEN n_gt ELSE n_pred
        r      == IF fn = "invoice" THEN res.res ELSE res
        same   == IF fn = "invoice" THEN res.res.item_count_match = 1
                  ELSE IsPct(res.item_count_pct, 100)
        unlike == IF fn = "invoice" THEN res.res.item_count_match = 0
                  ELSE IsPct(res.item_count_pct, 0)
    IN  /\ r.missing_items = (IF n_gt > n_pred THEN n_gt - n_pred ELSE 0)
        /\ r.extra_items = (IF n_pred > n_gt THEN n_pred - n_gt ELSE 0)
        /\ r.missing_items = 0 \/ r.extra_items = 0
        /\ same <=> n_gt = n_pred
        /\ same <=> (r.missing_items = 0 /\ r.extra_items = 0)
        /\ same \/ unlike
        /\ r.n_items = n_gt
        /\ fn = "invoice" =>
              \A x \in {"item_name", "quantity", "unit_price", "total_price"} :
                  r.items[x] \in 0..least
        /\ fn = "summary" =>
              /\ res.hs_pct.num \in 0..(100 * least)
              /\ res.summary_pct.num \in 0..(100 * least)
              /\ n_gt > 0 => (res.hs_pct.den = n_gt /\ res.summary_pct.den = n_gt)

\* C10 as stated: the counts hold with n_gt and n_pred the lengths of the two
\* item lists.
PositionalCountsAsStated ==
    (pc = "done" /\ fn \in {"invoice", "summary"} /\ ~res.raised) =>
        CountsFor(Len(gt.items.v), Len(pred.items.v))

\* C10 amended: in the invoice and summary evaluators, with n_gt and n_pred
\* the lengths of the aligned sequences (the item lists of the invoice
\* benchmark, the extracted (code, text) pairs of the summary benchmark, one
\* per key of each item), missing_items = max(0, n_gt - n_pred), extra_items =
\* max(0, n_pred - n_gt), item_count_match iff n_gt = n_pred iff both are 0,
\* at most one of them is non-zero, and every per-item match count is at most
\* min(n_gt, n_pred).
PositionalCounts ==
    (pc = "done" /\ fn \in {"invoice", "summary"} /\ ~res.raised) =>
        CountsFor(ItemCount(fn, gt), ItemCount(fn, pred))

PositionalCountsWitness ==
    /\ pc = "done"
    /\ fn = "summary"
    /\ ~res.raised
    /\ Len(gt.items.v) = 2
    /\ res.n_items = 3
    /\ res.extra_items = 2
    /\ res.hs_pct.num = 300

\* the predicted document cut to the first n aligned items, evaluated again
Trimmed(n) ==
    LET cut == [pred EXCEPT !.items = ListOf(SubSeq(pred.items.v, 1, Min(n, Len(pred.items.v))))]
        pr  == extract_pairs(pred).pairs
    IN  CASE fn = "hscode" -> hscode_evaluate(gt, cut, par)
          [] fn = "invoice" -> invoice_main(invoice_evaluate(gt, cut))
          [] fn = "summary" ->
                summary_report(gt, pred, par, extract_pairs(gt).pairs, SubSeq(pr, 1, Min(n, Len(pr))))

\* the per-item percentages of a report
PerItem(r) ==
    CASE fn = "hscode" -> <<r.item_name_match_table, r.pred_10_match_table, r.pred_6_match_table,
                            r.y_10_match_table, r.y_6_match_table>> \o r.metadata
      [] fn = "invoice" -> <<r.result.items.item_name, r.result.items.quantity,
                             r.result.items.unit_price, r.result.items.total_price>>
      [] fn = "summary" -> <<r.hs_pct, r.summary_pct, r.pred_hs10_valid_pct>>

\* C2: every per-item percentage is count / n_gt; the predicted items beyond
\* the ground truth change neither its numerator nor its denominator; 3
\* ground-truth and 5 predicted items give missing_items 0 and extra_items 2.
DenominatorStability ==
    (pc = "done" /\ fn \in {"hscode", "invoice", "summary"} /\ ~res.raised) =>
        LET n_gt   == ItemCount(fn, gt)
            n_pred == ItemCount(fn, pred)
            r      == IF fn = "invoice" THEN res.res ELSE res
        IN  /\ n_gt > 0 => \A i \in 1..Len(PerItem(res)) : PerItem(res)[i].den = n_gt
            /\ (fn # "hscode" /\ n_gt = 3 /\ n_pred = 5) =>
                  (r.missing_items = 0 /\ r.extra_items = 2)
            /\ PerItem(res) = PerItem(Trimmed(n_gt))

-----------------------------------------------------------------------------
(* EvalSpec: one call of any of the five evaluate functions on two documents  *)
(* whose top level is a mapping, well-formed or not below it                  *)

InvoiceEntries ==
    {InvoiceItem(Str(<<"a">>), Whole(5), Whole(100), Whole(100)),
     InvoiceItem(Str(<<"a", "b">>), Str(<<"5">>), Num(10005, 0 - 2), Whole(101)),
     InvoiceItem(None, None, Str(<<"a">>), Whole(0)),
     ScalarEntry(None, NoInvoiceFields),
     ScalarEntry(Str(<<"x">>), NoInvoiceFields)}

InvoiceSections ==
    {ListOf(l) : l \in ListsUpTo(InvoiceEntries, MaxItems)}
    \cup {AbsentValue, NullValue, NumberOf(5),
          TextOf(<<ScalarEntry(Str(<<"a">>), NoInvoiceFields)>>),
          KeysOf(<<ScalarEntry(Str(<<"a">>), NoInvoiceFields)>>)}

InvoiceDocs ==
    {InvoiceDoc(Str(<<"a">>), Str(<<"5">>), Whole(5), Whole(100), x) : x \in InvoiceSections}
    \cup {InvoiceDoc(Absent, Absent, Absent, Str(<<"a">>), ListOf(<<>>))}

SummaryEntries ==
    {SummaryItem(<<KeyVal(CodeText(10, 0), Str(<<"a">>))>>),
     SummaryItem(<<KeyVal(Dotted(CodeText(6, 0)), Str(<<"a", "b">>))>>),
     SummaryItem(<<KeyVal(<<"a", "-">>, None)>>),
     SummaryItem(<<KeyVal(CodeText(10, 0), Str(<<"a">>)), KeyVal(CodeText(10, 7), Str(<<"a">>))>>),
     SummaryItem(<<>>),
     ScalarEntry(Str(<<"x">>), <<>>)}

SummarySections ==
    {ListOf(l) : l \in ListsUpTo(SummaryEntries, MaxItems)}
    \cup {AbsentValue, NullValue, NumberOf(5), TextOf(<<ScalarEntry(Str(<<"a">>), <<>>)>>),
          KeysOf(<<ScalarEntry(Str(<<"a">>), <<>>)>>)}

SummaryDocs == {[seller_name |-> Str(<<"a">>), items |-> x] : x \in SummarySections}
               \cup {[seller_name |-> Absent, items |-> ListOf(<<>>)]}

EvalDocs(f) ==
    CASE f = "classification" -> ClassificationDocs
      [] f = "hscode" -> HsDocs
      [] f = "invoice" -> InvoiceDocs
      [] f = "parser" -> ParserDocs
      [] f = "summary" -> SummaryDocs

EvalPar(f) ==
    CASE f = "classification" -> ClassificationThreshold
      [] f = "hscode" -> HsThreshold
      [] f = "invoice" -> InvoiceThreshold
      [] f = "parser" -> <<>>
      [] f = "summary" -> HsThreshold

EvalInit ==
    /\ pc = "call"
    /\ fn \in {"classification", "hscode", "invoice", "parser", "summary"}
    /\ gt \in EvalDocs(fn)
    /\ pred \in EvalDocs(fn)
    /\ par = EvalPar(fn)
    /\ res = 0

EvalNext ==
    \/ EvaluateClassification
    \/ EvaluateHscode
    \/ EvaluateInvoice
    \/ EvaluateParser
    \/ EvaluateSummary

EvalSpec == EvalInit /\ [][EvalNext]_vars

\* C4: evaluate returns a report and never raises for any two documents whose
\* top level is a mapping, whatever the values below it are.
TotalEvaluation == pc = "done" => ~res.raised

\* the report fields that do not depend on the items of D when evaluate(D, D)
\* returns: the top-level field matches, the count match, missing and extra
SelfMatchFields ==
    CASE fn = "classification" ->
            /\ res.missing_items = 0
            /\ res.extra_items = 0
            /\ \A t \in DOMAIN res.per_type : IsPct(res.per_type[t], 100)
      [] fn = "hscode" -> IsPct(res.seller_name_match, 100)
      [] fn = "invoice" ->
            /\ res.res.missing_items = 0
            /\ res.res.extra_items = 0
            /\ IsPct(res.result.missing_items, 0)
            /\ IsPct(res.result.extra_items, 0)
            /\ IsPct(res.result.seller_name, 100)
            /\ IsPct(res.result.sum_total_quantity, 100)
            /\ IsPct(res.result.sum_total_price, 100)
            /\ IsPct(res.result.currency, 100)
            /\ IsPct(res.result.item_count_match, 100)
      [] fn = "parser" ->
            /\ \A i \in FieldIndexes : res.results[i] = 1
            /\ IsPct(res.accuracy, 100)
      [] fn = "summary" ->
            /\ res.missing_items = 0
            /\ res.extra_items = 0
            /\ IsPct(res.seller_pct, 100)
            /\ IsPct(res.item_count_pct, 100)

\* the number of aligned items of the report of evaluate(D, D)
SelfItems == IF fn = "invoice" THEN res.res.n_items
             ELSE IF fn = "parser" THEN Len(fields_to_check)
             ELSE res.n_items

\* the per-item match percentages of the report that compare one field of an
\* item with itself
SelfItemMatches ==
    CASE fn = "classification" -> <<res.accuracy>>
      [] fn = "hscode" -> <<res.item_name_match_table>>
      [] fn = "invoice" -> <<res.result.items.item_name, res.result.items.quantity,
                             res.result.items.unit_price, res.result.items.total_price,
                             res.overall_score>>
      [] fn = "parser" -> <<res.accuracy>>
      [] fn = "summary" -> <<res.summary_pct>>

\* the percentages of the report that compare the code of an item with itself:
\* the prefix accuracies 1..10, the exact-code match
SelfCodeMatches ==
    CASE fn = "hscode" -> res.metadata \o <<res.accuracy_10, res.accuracy_6>>
      [] fn = "summary" -> <<res.hs_pct>>
      [] OTHER -> <<>>

\* the digits of the code of each entry of D as evaluate reads them
SelfCodes ==
    CASE fn = "hscode" ->
            LET items == get_or_empty(gt.items).v
            IN  [i \in 1..Len(items) |->
                    normalize_hs(field(as_mapping(items[i], NoHsFields).d.hs_code))]
      [] fn = "summary" ->
            LET pairs == extract_pairs(gt).pairs
            IN  [i \in 1..Len(pairs) |-> pairs[i].hs]
      [] OTHER -> <<>>

Percentages(r) ==
    CASE fn = "classification" -> {r.accuracy} \cup {r.per_type[t] : t \in DOMAIN r.per_type}
      [] fn = "hscode" ->
            {r.seller_name_match, r.item_name_match_table, r.y_10_match_table, r.y_6_match_table,
             r.pred_10_match_table, r.pred_6_match_table, r.accuracy_10, r.accuracy_6}
            \cup {r.metadata[k] : k \in 1..MaxPrefix}
      [] fn = "invoice" ->
            {r.result.seller_name, r.result.sum_total_quantity, r.result.sum_total_price,
             r.result.currency, r.result.item_count_match, r.result.missing_items,
             r.result.extra_items, r.result.items.item_name, r.result.items.quantity,
             r.result.items.unit_price, r.result.items.total_price, r.overall_score}
      [] fn = "parser" -> {r.accuracy}
      [] fn = "summary" ->
            {r.seller_pct, r.hs_pct, r.summary_pct, r.item_count_pct, r.pred_hs10_valid_pct}

\* 0 <= p <= 100 for a percentage
InRange(p) == p.den > 0 /\ 0 <= p.num /\ p.num <= 100 * p.den

\* C11: every count used as the numerator of a percentage is at most its
\* denominator, so every percentage of a report lies between 0 and 100,
\* whatever the ground-truth and predicted item counts are.
TallyBound ==
    (pc = "done" /\ ~res.raised) => \A p \in Percentages(res) : InRange(p)

\* the per-item percentages of a report: those accumulated over the items
\* (field matches, prefix accuracies, code validity), their total the number
\* of ground-truth items
ItemPercentages(r) ==
    CASE fn = "classification" -> {r.accuracy}
      [] fn = "hscode" ->
            {r.item_name_match_table, r.y_10_match_table, r.y_6_match_table,
             r.pred_10_match_table, r.pred_6_match_table, r.accuracy_10, r.accuracy_6}
            \cup {r.metadata[k] : k \in 1..MaxPrefix}
      [] fn = "invoice" ->
            {r.result.items.item_name, r.result.items.quantity, r.result.items.unit_price,
             r.result.items.total_price}
      [] fn = "parser" -> {}
      [] fn = "summary" -> {r.hs_pct, r.summary_pct, r.pred_hs10_valid_pct}

Normalization ==
    (pc = "done" /\ fn \in Variants /\ gt.k # "none" /\ pred.k # "none"
     /\ strip(py_str(gt)) = strip(py_str(pred))) => res = 1

====
